---- MODULE Spec2Model ----
(***************************************************************************)
(* The API gateway worker of da-cloud-cf-gateway (src/src/index.js with    *)
(* the static route table of src/src/router.template.js) as a state        *)
(* machine.  The state is the three module-level globals G_DB, G_CTX and   *)
(* G_ENV and, per request being handled, the position of its handler at    *)
(* the handler's await points (request.json(), the D1 query, the outbound  *)
(* fetch) with the handler's local variables.                              *)
(*                                                                         *)
(* JavaScript values are tagged records: [t |-> "undef"], [t |-> "null"],  *)
(* [t |-> "bool", v], [t |-> "num", v], [t |-> "str", v] (v a string),     *)
(* [t |-> "chars", v] (a string kept as its sequence of characters, used   *)
(* where the code looks inside the string), [t |-> "arr", v, p] (elements  *)
(* v and named own properties p) and [t |-> "obj", v] (v a function from   *)
(* property names to values).                                              *)
(***************************************************************************)
EXTENDS Integers, Sequences, FiniteSets, TLC

VARIABLES G_DB, G_CTX, G_ENV, reqs, mode

vars == <<G_DB, G_CTX, G_ENV, reqs, mode>>

\* ------------------------------------------------------------------ bounds
\* Requests that may be in flight at once in the concurrent specification.
MaxInFlight == 2
\* Numbers that occur as JSON values of the inputs: 0 .. MaxNum.
MaxNum == 1

\* ------------------------------------------------------- JavaScript values
Undefined == [t |-> "undef"]
Null == [t |-> "null"]
Bool(b) == [t |-> "bool", v |-> b]
Num(n) == [t |-> "num", v |-> n]
Str(s) == [t |-> "str", v |-> s]
Chars(s) == [t |-> "chars", v |-> s]
Arr(s) == [t |-> "arr", v |-> s, p |-> <<>>]
Obj(f) == [t |-> "obj", v |-> f]
EmptyObj == Obj(<<>>)

\* !x
Truthy(x) ==
  CASE x.t = "undef" -> FALSE
    [] x.t = "null" -> FALSE
    [] x.t = "bool" -> x.v
    [] x.t = "num" -> x.v # 0
    [] x.t = "str" -> x.v # ""
    [] x.t = "chars" -> Len(x.v) > 0
    [] OTHER -> TRUE

\* a || b
OrElse(a, b) == IF Truthy(a) THEN a ELSE b

\* o.k throws a TypeError when o is null or undefined
Readable(o) == o.t \notin {"undef", "null"}

\* o.k, for a readable o
Prop(o, k) ==
  CASE o.t = "obj" -> IF k \in DOMAIN o.v THEN o.v[k] ELSE Undefined
    [] o.t = "arr" -> IF k \in DOMAIN o.p THEN o.p[k] ELSE Undefined
    [] OTHER -> Undefined

\* o.k = x and (k in o) throw a TypeError on a primitive (module code is strict)
IsObjectLike(o) == o.t \in {"obj", "arr"}

\* k in o, for an object-like o
HasProp(o, k) == IF o.t = "obj" THEN k \in DOMAIN o.v ELSE k \in DOMAIN o.p

WithKey(f, k, x) == [j \in DOMAIN f \cup {k} |-> IF j = k THEN x ELSE f[j]]
WithoutKey(f, k) == [j \in DOMAIN f \ {k} |-> f[j]]

\* o.k = x, for an object-like o
SetProp(o, k, x) ==
  IF o.t = "obj" THEN [o EXCEPT !.v = WithKey(o.v, k, x)]
  ELSE [o EXCEPT !.p = WithKey(o.p, k, x)]

\* delete o.k, for an object-like o
DeleteProp(o, k) ==
  IF o.t = "obj" THEN [o EXCEPT !.v = WithoutKey(o.v, k)]
  ELSE [o EXCEPT !.p = WithoutKey(o.p, k)]

\* `${x}`
RECURSIVE ToStr(_)
RECURSIVE JoinElems(_)
JoinElems(s) ==
  IF Len(s) = 0 THEN ""
  ELSE LET h == IF Head(s).t \in {"undef", "null"} THEN "" ELSE ToStr(Head(s))
       IN IF Len(s) = 1 THEN h ELSE h \o "," \o JoinElems(Tail(s))
ToStr(x) ==
  CASE x.t = "undef" -> "undefined"
    [] x.t = "null" -> "null"
    [] x.t = "bool" -> IF x.v THEN "true" ELSE "false"
    [] x.t = "num" -> ToString(x.v)
    [] x.t = "str" -> x.v
    [] x.t = "arr" -> JoinElems(x.v)
    [] OTHER -> "[object Object]"

\* JSON.stringify(x), as the JSON value the receiver parses: an array's named
\* properties and an object's undefined properties are not serialised.
RECURSIVE Stringify(_)
Stringify(x) ==
  CASE x.t = "obj" ->
         Obj([k \in {j \in DOMAIN x.v : x.v[j] # Undefined} |-> Stringify(x.v[k])])
    [] x.t = "arr" ->
         Arr([i \in DOMAIN x.v |->
                IF x.v[i] = Undefined THEN Null ELSE Stringify(x.v[i])])
    [] OTHER -> x

\* ---------------------------------------------------------------- strings
\* s.startsWith(p), on sequences of characters
StartsWith(s, p) == Len(s) >= Len(p) /\ SubSeq(s, 1, Len(p)) = p

\* s.split(c), on sequences of characters
RECURSIVE Split(_, _)
Split(s, c) ==
  IF \A i \in 1..Len(s) : s[i] # c THEN <<s>>
  ELSE LET i == CHOOSE j \in 1..Len(s) : s[j] = c /\ \A h \in 1..(j - 1) : s[h] # c
       IN <<SubSeq(s, 1, i - 1)>> \o Split(SubSeq(s, i + 1, Len(s)), c)

\* a[i] of a JavaScript array (0-based): undefined past the end
At(a, i) == IF i + 1 \in DOMAIN a THEN Chars(a[i + 1]) ELSE Undefined

BearerPrefix == <<"B", "e", "a", "r", "e", "r", " ">>

\* --------------------------------------------------------------- constants
C_RouteTableName == "darouter"
ABLY_PUBLISH_BASE_URL == "https://rest.ably.io/channels"
C_GATEWAY_TOKEN_NAME == "DA_GATEWAY_TOKEN"

\* The static route table.
DA_SERVICE_MAP ==
  [k \in {"v99/demorest", "v88/demoably"} |->
     IF k = "v99/demorest"
     THEN Obj([f \in {"type", "targetUrl", "authKeyEnvName"} |->
                 CASE f = "type" -> Str("REST")
                   [] f = "targetUrl" -> Str("https://v1-users-api.example.com")
                   [] f = "authKeyEnvName" -> Str("REST_API_BEARER_TOKEN")])
     ELSE Obj([f \in {"type", "authKeyEnvName", "channelName"} |->
                 CASE f = "type" -> Str("ABLY")
                   [] f = "authKeyEnvName" -> Str("ABLY_API_KEY")
                   [] f = "channelName" -> Str("system_bus_v1")])]

\* DA_SERVICE_MAP[key]
StaticLookup(key) ==
  IF key \in DOMAIN DA_SERVICE_MAP THEN DA_SERVICE_MAP[key] ELSE Undefined

\* ------------------------------------------------------------ route store
\* A D1 handle (env.DB), a truthy object.
Db(id) == [t |-> "db", id |-> id]

\* The JSON texts the stores hold in column t1.
OrdersText == "{\"type\":\"REST\",\"targetUrl\":\"https://orders.example.com\",\"token\":\"T1\",\"authKeyEnvName\":\"REST_API_BEARER_TOKEN\",\"table_name\":\"orders\"}"
OrdersBText == "{\"type\":\"REST\",\"targetUrl\":\"https://orders-b.example.com\",\"token\":\"T2\"}"
PlainText == "{\"type\":\"REST\",\"targetUrl\":\"https://plain.example.com\"}"
EventsText == "{\"type\":\"ABLY\",\"channelName\":\"events/eu\",\"token\":\"K1\",\"table_name\":\"events\"}"
ShadowText == "{\"type\":\"ABLY\",\"channelName\":\"shadow\"}"
GrpcText == "{\"type\":\"GRPC\",\"targetUrl\":\"grpc://x\"}"
NoUrlText == "{\"type\":\"REST\"}"
NullText == "null"
BrokenText == "{type:"

\* A JSON object given as a record whose fields holding Undefined are absent.
MkObj(f) == Obj([k \in {j \in DOMAIN f : f[j] # Undefined} |-> f[k]])

RouteObj(type, targetUrl, token, authKeyEnvName, channelName, table_name) ==
  MkObj([type |-> type, targetUrl |-> targetUrl, token |-> token,
         authKeyEnvName |-> authKeyEnvName, channelName |-> channelName,
         table_name |-> table_name])

\* JSON.parse(text): what each text parses to; a text that is not JSON raises.
JsonTexts ==
  [x \in {OrdersText, OrdersBText, PlainText, EventsText, ShadowText, GrpcText,
          NoUrlText, NullText} |->
     CASE x = OrdersText ->
            RouteObj(Str("REST"), Str("https://orders.example.com"), Str("T1"),
                     Str("REST_API_BEARER_TOKEN"), Undefined, Str("orders"))
       [] x = OrdersBText ->
            RouteObj(Str("REST"), Str("https://orders-b.example.com"), Str("T2"),
                     Undefined, Undefined, Undefined)
       [] x = PlainText ->
            RouteObj(Str("REST"), Str("https://plain.example.com"), Undefined,
                     Undefined, Undefined, Undefined)
       [] x = EventsText ->
            RouteObj(Str("ABLY"), Undefined, Str("K1"), Undefined,
                     Str("events/eu"), Str("events"))
       [] x = ShadowText ->
            RouteObj(Str("ABLY"), Undefined, Undefined, Undefined, Str("shadow"),
                     Undefined)
       [] x = GrpcText ->
            RouteObj(Str("GRPC"), Str("grpc://x"), Undefined, Undefined, Undefined,
                     Undefined)
       [] x = NoUrlText ->
            RouteObj(Str("REST"), Undefined, Undefined, Undefined, Undefined,
                     Undefined)
       [] x = NullText -> Null]

JsonParses(text) == text \in DOMAIN JsonTexts
JsonParse(text) == JsonTexts[text]

\* The column t1 of the rows of table darouter with c1 = key, per store.
StoreRows(id, key) ==
  CASE id = "dbA" /\ key = "v1/orders" -> <<Str(OrdersText)>>
    [] id = "dbB" /\ key = "v1/orders" -> <<Str(OrdersBText)>>
    [] id = "dbA" /\ key = "v1/plain" -> <<Str(PlainText)>>
    [] id = "dbA" /\ key = "v1/events" -> <<Str(EventsText)>>
    [] id = "dbA" /\ key = "v99/demorest" -> <<Str(ShadowText)>>
    [] id = "dbA" /\ key = "v1/grpc" -> <<Str(GrpcText)>>
    [] id = "dbA" /\ key = "v1/nourl" -> <<Str(NoUrlText)>>
    [] id = "dbA" /\ key = "v1/null" -> <<Str(NullText)>>
    [] id = "dbA" /\ key = "v1/empty" -> <<Str("")>>
    [] id = "dbA" /\ key = "v1/nullcol" -> <<Null>>
    [] id = "dbA" /\ key = "v1/broken" -> <<Str(BrokenText)>>
    [] OTHER -> <<>>

\* Stores whose every query raises.
FailingStores == {"dbDown"}

\* await G_DB.prepare(query).bind(key).all(): the query of table
\* C_RouteTableName raises, or resolves to {results}.
StoreQuery(db, key) ==
  IF db.id \in FailingStores THEN [raises |-> TRUE, results |-> <<>>]
  ELSE [raises |-> FALSE, results |-> StoreRows(db.id, key)]

\* FindRouteResult with a text that does not parse returned as it is.
FindRouteResultRawText(q) ==
  IF q.raises THEN Null
  ELSE IF Len(q.results) = 0 THEN Null
  ELSE LET t1 == q.results[1]
       IN IF ~Truthy(t1) THEN Null
          ELSE IF ~JsonParses(t1.v) THEN t1
          ELSE JsonParse(t1.v)

\* findRouteFromDB after its query: what it returns for the query's outcome.
FindRouteResult(q) ==
  IF q.raises THEN Null
  ELSE IF Len(q.results) = 0 THEN Null
  ELSE LET t1 == q.results[1]
       IN IF ~Truthy(t1) THEN Null
          ELSE IF ~JsonParses(t1.v) THEN Null
          ELSE JsonParse(t1.v)

\* -------------------------------------------------------------- responses
Response(kind, status, requestId, code, text) ==
  [kind |-> kind, status |-> status, request_id |-> requestId, code |-> code,
   text |-> text]

NoResponse == Response("none", 0, Undefined, "", "")

nack(requestId, code, message) == Response("nack", 400, requestId, code, message)

\* {success: false, error: msg}
jsonError(msg, code) == Response("error", code, Undefined, "", msg)

\* {success: true, ...data}
jsonSuccess(message) == Response("success", 200, Undefined, "Accepted", message)

\* new Response(text, {status})
PlainResponse(text, status) == Response("plain", status, Undefined, "", text)

\* The backend's own response, returned as it is.
BackendResponse(status) == Response("backend", status, Undefined, "", "")

\* The handler's promise rejects: no response is built.
Uncaught == Response("uncaught", 0, Undefined, "", "TypeError")

\* ------------------------------------------------------- outbound calls
\* encodeURIComponent(s), for the channel names of the routes
UrlEncode(s) == IF s = "events/eu" THEN "events%2Feu" ELSE s

\* btoa(s): the base64 text of s
Btoa(s) == "base64(" \o s \o ")"

\* A call of the platform's fetch(): where to, with which headers and body.
Call(kind, url, headers, body) ==
  [kind |-> kind, url |-> url, headers |-> headers, body |-> body]

NoCall == Call("none", "", <<>>, Undefined)

\* ------------------------------------------------------------ the handler
\* AuthGate with the token checked only when a secret is configured.
AuthGateIfConfigured(auth, secret) ==
  IF ~Truthy(auth) \/ ~StartsWith(auth.v, BearerPrefix) THEN "UNAUTHORIZED"
  ELSE IF Truthy(secret) /\ At(Split(auth.v, " "), 1) # secret THEN "INVALID_TOKEN"
  ELSE "OK"

\* handleApi, lines 72-80: the authentication gate.
AuthGate(auth, secret) ==
  IF ~Truthy(auth) \/ ~StartsWith(auth.v, BearerPrefix) THEN "UNAUTHORIZED"
  ELSE IF At(Split(auth.v, " "), 1) # secret THEN "INVALID_TOKEN"
  ELSE "OK"

\* handleApi, lines 82-99: the response to a body that fails validation,
\* NoResponse for a body that passes.  raw is what request.json() gives:
\* it raises (raw.json = FALSE) or resolves to raw.value.
ValidateBody(raw) ==
  IF ~raw.json THEN nack(Str("unknown"), "INVALID_JSON", "Malformed JSON body")
  ELSE IF ~Readable(raw.value) THEN Uncaught
  ELSE LET body == raw.value
           requestId == OrElse(Prop(body, "request_id"), Str("unknown"))
       IN IF ~Truthy(Prop(body, "service"))
          THEN nack(requestId, "INVALID_FIELD", "Missing field: service")
          ELSE IF ~Truthy(Prop(body, "payload"))
          THEN nack(requestId, "INVALID_FIELD", "Missing required field: payload")
          ELSE NoResponse

\* const key = `${version}/${service}`
RouteKey(body) ==
  ToStr(OrElse(Prop(body, "version"), Str("v1"))) \o "/" \o ToStr(Prop(body, "service"))

\* NeedsStore with the store asked for every key.
NeedsStoreAlways(staticRoute) == TRUE

\* if (!route) route = await findRouteFromDB(key): whether the store is asked
NeedsStore(staticRoute) == ~Truthy(staticRoute)

\* InjectTableName without the else branch: a client's table_name is kept
\* when the route has none.
InjectTableNameNoStrip(route, body) ==
  LET payload == Prop(body, "payload")
  IN IF Truthy(Prop(route, "table_name")) /\ IsObjectLike(payload)
     THEN SetProp(body, "payload",
                  SetProp(payload, "table_name", Prop(route, "table_name")))
     ELSE body

\* handleApi, lines 111-122: body after the table_name step.
InjectTableName(route, body) ==
  LET payload == Prop(body, "payload")
  IN IF Truthy(Prop(route, "table_name"))
     THEN IF IsObjectLike(payload)
          THEN SetProp(body, "payload",
                       SetProp(payload, "table_name", Prop(route, "table_name")))
          ELSE body
     ELSE IF IsObjectLike(payload) /\ HasProp(payload, "table_name")
          THEN SetProp(body, "payload", DeleteProp(payload, "table_name"))
          ELSE body

\* ResolveCredential with the named secret preferred to route.token.
ResolveCredentialEnvFirst(route, env) ==
  IF Truthy(Prop(route, "authKeyEnvName"))
  THEN Prop(env, ToStr(Prop(route, "authKeyEnvName")))
  ELSE Prop(route, "token")

\* handleRest and handleAbly, their first lines: the outbound credential.
ResolveCredential(route, env) ==
  LET routeToken == Prop(route, "token")
  IN IF ~Truthy(routeToken) \/ routeToken = Str("")
     THEN IF Truthy(Prop(route, "authKeyEnvName"))
          THEN Prop(env, ToStr(Prop(route, "authKeyEnvName")))
          ELSE routeToken
     ELSE routeToken

\* handleRest, lines 22-23: the headers of the forwarded request.
RestHeaders(routeToken) ==
  IF Truthy(routeToken)
  THEN [h \in {"Content-Type", "Authorization"} |->
          IF h = "Content-Type" THEN "application/json"
          ELSE "Bearer " \o ToStr(routeToken)]
  ELSE [h \in {"Content-Type"} |-> "application/json"]

\* fetch(url, ...) raises at once on a url that is none.
ValidUrl(u) == u.t = "str" /\ u.v # ""

\* handleRest up to its await: the call it makes.
RestCall(route, bodyJson, env) ==
  Call("REST", ToStr(Prop(route, "targetUrl")),
       RestHeaders(ResolveCredential(route, env)), Stringify(bodyJson))

\* handleAbly, line 43: the event's name.
AblyName(bodyJson) == OrElse(Prop(bodyJson, "action"), Str("gateway-event"))

\* handleAbly, lines 45-48: the body published.
AblyBody(bodyJson) ==
  Stringify(Arr(<<MkObj([name |-> AblyName(bodyJson), data |-> bodyJson])>>))

\* handleAbly up to its await: the call it makes.
AblyCall(route, bodyJson, env) ==
  Call("ABLY",
       ABLY_PUBLISH_BASE_URL \o "/" \o UrlEncode(ToStr(Prop(route, "channelName")))
         \o "/messages",
       [h \in {"Content-Type", "Authorization"} |->
          IF h = "Content-Type" THEN "application/json"
          ELSE "Basic " \o Btoa(ToStr(ResolveCredential(route, env)))],
       AblyBody(bodyJson))

\* switch (route.type): the handler selected.
Selected(route) ==
  IF Prop(route, "type") = Str("REST") THEN "REST"
  ELSE IF Prop(route, "type") = Str("ABLY") THEN "ABLY"
  ELSE "default"

\* ------------------------------------------------------ request handling
\* What request.json() gives: it raises, or resolves to a JSON value.
NotJson == [json |-> FALSE, value |-> Undefined]
Json(x) == [json |-> TRUE, value |-> x]

Request(method, path, auth, raw) ==
  [method |-> method, path |-> path, auth |-> auth, raw |-> raw]

\* A request's handler: its position (pc), its inputs (request, env), its
\* locals (body, key, route), what it did so far (did; db is the store handle
\* findRouteFromDB read), the outbound call it made, how that call ended
\* (outcome) and its response.
Idle ==
  [pc |-> "idle", request |-> Request("", "", Null, NotJson), env |-> Undefined,
   body |-> Undefined, key |-> "", route |-> Undefined, db |-> Undefined,
   did |-> {}, out |-> NoCall, outcome |-> "", resp |-> NoResponse]

Finish(q, resp) == [q EXCEPT !.pc = "done", !.resp = resp]

RequestId(body) == OrElse(Prop(body, "request_id"), Str("unknown"))

\* UnsupportedMessage reporting the route's type.
UnsupportedMessageOfRoute(route, body) ==
  "Unsupported service type: " \o ToStr(Prop(route, "type"))

\* handleApi, line 131: the message of the 501 response.
UnsupportedMessage(route, body) ==
  "Unsupported service type: " \o ToStr(Prop(body, "type"))

\* handleApi, lines 111-136, up to the selected handler's await.
Dispatch(q, route, env) ==
  LET body == InjectTableName(route, q.body)
      q1 == [q EXCEPT !.body = body, !.route = route]
  IN CASE Selected(route) = "REST" ->
            IF ValidUrl(Prop(route, "targetUrl"))
            THEN [q1 EXCEPT !.pc = "fetch", !.did = @ \cup {"fetch"},
                            !.out = RestCall(route, body, env)]
            ELSE Finish([q1 EXCEPT !.outcome = "rejects"],
                        jsonError("Gateway processing failed", 500))
       [] Selected(route) = "ABLY" ->
            [q1 EXCEPT !.pc = "fetch", !.did = @ \cup {"fetch"},
                       !.out = AblyCall(route, body, env)]
       [] OTHER ->
            Finish(q1, jsonError(UnsupportedMessage(route, body), 501))

\* handleApi from the gate to its first await.
Entry(q, env) ==
  LET gate == AuthGate(q.request.auth, Prop(env, C_GATEWAY_TOKEN_NAME))
  IN IF gate = "UNAUTHORIZED"
     THEN Finish(q, nack(Str("unknown"), "UNAUTHORIZED",
                         "Missing or invalid Authorization header"))
     ELSE IF gate = "INVALID_TOKEN"
     THEN Finish(q, nack(Str("unknown"), "INVALID_TOKEN",
                         "Token authentication failed"))
     ELSE [q EXCEPT !.pc = "json"]

\* The fetch handler of the worker, lines 142-156, to its first await.
FetchEntry(q, env) ==
  IF q.request.method # "POST" THEN Finish(q, PlainResponse("Method Not Allowed", 405))
  ELSE IF q.request.path = "/api" THEN Entry(q, env)
  ELSE Finish(q, PlainResponse("Not Found", 404))

\* handleApi from the body read to its next await (the store query, the
\* outbound call) or to its return; db and env are G_DB and G_ENV then.
AfterJson(q, db, env) ==
  LET v == ValidateBody(q.request.raw)
      q1 == [q EXCEPT !.did = @ \cup {"json"}]
  IN IF v # NoResponse THEN Finish(q1, v)
     ELSE LET body == q.request.raw.value
              key == RouteKey(body)
              route == StaticLookup(key)
              q2 == [q1 EXCEPT !.body = body, !.key = key, !.did = @ \cup {"static"}]
          IN IF NeedsStore(route)
             THEN LET q3 == [q2 EXCEPT !.did = @ \cup {"findRouteFromDB"}, !.db = db]
                  IN IF ~Truthy(db)
                     THEN Finish(q3, nack(RequestId(body), "NO_ROUTE",
                                          "No route found for " \o key))
                     ELSE [q3 EXCEPT !.pc = "db", !.did = @ \cup {"query"}]
             ELSE Dispatch(q2, route, env)

\* handleApi from the store's answer on; env is G_ENV then.
AfterDb(q, env) ==
  LET route == FindRouteResult(StoreQuery(q.db, q.key))
  IN IF ~Truthy(route)
     THEN Finish(q, nack(RequestId(q.body), "NO_ROUTE", "No route found for " \o q.key))
     ELSE Dispatch(q, route, env)

\* How an outbound call ends: the backend answers 2xx ("ok") or not ("notok",
\* and for the bus "notext" when reading the error body raises), or the call
\* raises ("rejects").
Outcomes(kind) ==
  IF kind = "REST" THEN {"ok", "notok", "rejects"}
  ELSE {"ok", "notok", "notext", "rejects"}

\* handleRest and handleAbly after their await, and handleApi's catch.
AfterFetch(q0, outcome) ==
  LET q == [q0 EXCEPT !.outcome = outcome]
  IN IF outcome \in {"rejects", "notext"}
     THEN Finish(q, jsonError("Gateway processing failed", 500))
     ELSE IF q.out.kind = "REST"
     THEN Finish(q, BackendResponse(IF outcome = "ok" THEN 200 ELSE 503))
     ELSE IF outcome = "ok"
     THEN Finish(q, jsonSuccess("Event published successfully to Ably channel: "
                                  \o ToStr(Prop(q.route, "channelName"))))
     ELSE Finish(q, jsonError("Failed to publish event to Ably: " \o "bus error", 502))

\* ------------------------------------------------------------------ inputs
Bearer(rest) == Chars(BearerPrefix \o rest)

\* Authorization headers: absent, empty, without the prefix, and with it.
Headers ==
  {Null, Chars(<<>>), Chars(<<"B", "e", "a", "r", "e", "r">>),
   Chars(<<"b", "e", "a", "r", "e", "r", " ", "a">>),
   Chars(<<"B", "a", "s", "i", "c", " ", "a">>),
   Chars(<<" ">> \o BearerPrefix \o <<"a">>),
   Bearer(<<>>), Bearer(<<"a">>), Bearer(<<"b">>), Bearer(<<"a", "b">>),
   Bearer(<<" ", "a">>), Bearer(<<"a", " ", "x">>), Bearer(<<"a", " ">>)}

\* Gateway secrets: unconfigured, empty, one word, with a space in it.
Secrets ==
  {Undefined, Chars(<<>>), Chars(<<"a">>), Chars(<<"a", "b">>), Chars(<<"a", " ", "x">>)}

Env(secret, db, rest, ably) ==
  MkObj([DA_GATEWAY_TOKEN |-> secret, DB |-> db, REST_API_BEARER_TOKEN |-> rest,
         ABLY_API_KEY |-> ably])

EnvA == Env(Chars(<<"a">>), Db("dbA"), Str("sA"), Str("kA"))
EnvB == Env(Chars(<<"b">>), Db("dbB"), Str("sB"), Undefined)
EnvNoDb == Env(Chars(<<"a">>), Undefined, Str(""), Str("kN"))
EnvDown == Env(Chars(<<"a">>), Db("dbDown"), Str("sD"), Str("kD"))

Envelope(request_id, version, service, payload, type, action) ==
  MkObj([request_id |-> request_id, version |-> version, service |-> service,
         payload |-> payload, type |-> type, action |-> action])

\* A payload object with the given table_name and action (Undefined: absent).
Payload(table_name, action) ==
  MkObj([table_name |-> table_name, action |-> action, item |-> Num(1)])

Simple(service) ==
  Envelope(Str("r1"), Undefined, Str(service), Payload(Undefined, Undefined),
           Undefined, Undefined)

Post(auth, raw) == Request("POST", "/api", auth, raw)

Numbers == {Num(n) : n \in 0..MaxNum}

\* The inputs of each specification: pairs of a request and the env it is
\* invoked with.
AuthInputs ==
  {[request |-> Request(m, p, h, b), env |-> Env(s, Db("dbA"), Str("sA"), Str("kA"))] :
     m \in {"POST"}, p \in {"/api"}, h \in Headers, s \in Secrets,
     b \in {NotJson, Json(Simple("orders")), Json(Simple("demoably"))}}
  \cup
  {[request |-> Request(m, p, h, Json(Simple("orders"))), env |-> EnvA] :
     m \in {"POST", "GET"}, p \in {"/api", "/", "/api/"}, h \in {Null, Bearer(<<"a">>)}}

BodyValues ==
  {Null, Bool(TRUE), Str("x"), Arr(<<>>), Arr(<<Simple("orders")>>), EmptyObj}
  \cup Numbers
  \cup {Envelope(i, v, s, p, Undefined, Undefined) :
          i \in {Undefined, Str("r1"), Num(0)},
          v \in {Undefined, Str(""), Str("v1")},
          s \in {Undefined, Null, Str(""), Str("orders"), Str("events")},
          p \in {Undefined, Bool(FALSE), Bool(TRUE), Str("x"), EmptyObj, Arr(<<>>),
                 Payload(Undefined, Undefined)} \cup Numbers}

BodyInputs ==
  {[request |-> Post(Bearer(<<"a">>), b), env |-> EnvA] :
     b \in {NotJson} \cup {Json(x) : x \in BodyValues}}

RouteInputs ==
  {[request |-> Post(Bearer(<<"a">>),
                     Json(Envelope(Str("r1"), v, s, Payload(Undefined, Undefined),
                                   Undefined, Undefined))),
    env |-> e] :
     v \in {Undefined, Str("v1"), Str("v99"), Str("v88"), Num(1)},
     s \in {Str("demorest"), Str("demoably"), Str("orders"), Str("plain"),
            Str("missing"), Str("empty"), Str("nullcol"), Str("null"), Str("broken"),
            Arr(<<Str("demorest")>>), Str("orders/x"), EmptyObj},
     e \in {EnvA, EnvB, EnvNoDb, EnvDown}}

DispatchInputs ==
  {[request |-> Post(Bearer(<<"a">>),
                     Json(Envelope(Str("r1"), v.version, Str(v.service), p, t, a))),
    env |-> EnvA] :
     v \in {[version |-> Undefined, service |-> "orders"],
            [version |-> Undefined, service |-> "plain"],
            [version |-> Undefined, service |-> "events"],
            [version |-> Undefined, service |-> "grpc"],
            [version |-> Undefined, service |-> "nourl"],
            [version |-> Str("v88"), service |-> "demoably"]},
     p \in {Payload(Str("spoofed"), Str("created")), Payload(Undefined, Undefined),
            EmptyObj, Arr(<<Str("x")>>), Str("text"), Bool(TRUE)}
           \cup (Numbers \ {Num(0)}),
     t \in {Undefined, Str("SOAP")},
     a \in {Undefined, Str("top")}}

ConcInputs ==
  {[request |-> Post(Bearer(<<"a">>), Json(Simple(s))), env |-> EnvA] :
     s \in {"orders", "missing", "broken", "empty"}}
  \cup
  {[request |-> Post(Bearer(<<"a">>), Json(Simple("orders"))), env |-> e] :
     e \in {EnvNoDb, EnvDown}}
  \cup
  {[request |-> Post(Bearer(<<"b">>),
                     Json(Envelope(Str("r2"), v.version, Str(v.service),
                                   Payload(Undefined, Undefined), Undefined, Undefined))),
    env |-> EnvB] :
     v \in {[version |-> Undefined, service |-> "orders"],
            [version |-> Str("v99"), service |-> "demorest"]}}

Inputs(m) ==
  CASE m = "auth" -> AuthInputs
    [] m = "body" -> BodyInputs
    [] m = "route" -> RouteInputs
    [] m = "dispatch" -> DispatchInputs
    [] OTHER -> ConcInputs

\* Requests handled at once: one, and up to MaxInFlight where the handlers
\* interleave.
Slots(m) == IF m = "conc" THEN 1..MaxInFlight ELSE {1}

\* How outbound calls end, per specification.
OutcomesIn(m, kind) == IF m = "conc" THEN {"ok"} ELSE Outcomes(kind)

\* ----------------------------------------------------------------- actions
InitMode(m) ==
  /\ mode = m
  /\ G_DB = Null
  /\ G_CTX = Null
  /\ G_ENV = Null
  /\ reqs = [r \in Slots(m) |-> Idle]

\* The worker's fetch(request, env, ctx) runs to its first await.
Fetch(r) ==
  /\ reqs[r].pc = "idle"
  /\ \E in \in Inputs(mode) :
       /\ G_DB' = Prop(in.env, "DB")
       /\ G_CTX' = [t |-> "ctx"]
       /\ G_ENV' = in.env
       /\ reqs' = [reqs EXCEPT ![r] =
                     FetchEntry([Idle EXCEPT !.request = in.request, !.env = in.env],
                                in.env)]
  /\ UNCHANGED mode

\* await request.json() ends and handleApi runs on.
ResumeJson(r) ==
  /\ reqs[r].pc = "json"
  /\ reqs' = [reqs EXCEPT ![r] = AfterJson(reqs[r], G_DB, G_ENV)]
  /\ UNCHANGED <<G_DB, G_CTX, G_ENV, mode>>

\* The store's query ends and findRouteFromDB, then handleApi, run on.
ResumeDb(r) ==
  /\ reqs[r].pc = "db"
  /\ reqs' = [reqs EXCEPT ![r] = AfterDb(reqs[r], G_ENV)]
  /\ UNCHANGED <<G_DB, G_CTX, G_ENV, mode>>

\* The outbound call ends and the handler returns.
ResumeFetch(r) ==
  /\ reqs[r].pc = "fetch"
  /\ \E o \in OutcomesIn(mode, reqs[r].out.kind) :
       reqs' = [reqs EXCEPT ![r] = AfterFetch(reqs[r], o)]
  /\ UNCHANGED <<G_DB, G_CTX, G_ENV, mode>>

\* The response is delivered; the next request may come.
Retire(r) ==
  /\ reqs[r].pc = "done"
  /\ reqs' = [reqs EXCEPT ![r] = Idle]
  /\ UNCHANGED <<G_DB, G_CTX, G_ENV, mode>>

Next ==
  \/ \E r \in DOMAIN reqs : Fetch(r)
  \/ \E r \in DOMAIN reqs : ResumeJson(r)
  \/ \E r \in DOMAIN reqs : ResumeDb(r)
  \/ \E r \in DOMAIN reqs : ResumeFetch(r)
  \/ \E r \in DOMAIN reqs : Retire(r)

Init == InitMode("conc")
Spec == Init /\ [][Next]_vars

InitAuth == InitMode("auth")
SpecAuth == InitAuth /\ [][Next]_vars

InitBody == InitMode("body")
SpecBody == InitBody /\ [][Next]_vars

InitRoute == InitMode("route")
SpecRoute == InitRoute /\ [][Next]_vars

InitDispatch == InitMode("dispatch")
SpecDispatch == InitDispatch /\ [][Next]_vars

\* ------------------------------------------------------------------ claims
\* The requests whose handler has run (any slot not idle).
Started == {r \in DOMAIN reqs : reqs[r].pc # "idle"}

\* The requests handleApi was called for.
ApiRequests ==
  {r \in Started : reqs[r].request.method = "POST" /\ reqs[r].request.path = "/api"}

IsNack(resp, code) == resp.kind = "nack" /\ resp.status = 400 /\ resp.code = code

\* The header has the exact prefix "Bearer ".
HasBearerPrefix(auth) ==
  /\ auth # Null
  /\ Len(auth.v) >= 7
  /\ \A i \in 1..7 : auth.v[i] = BearerPrefix[i]

\* The token a header with the prefix presents: what follows the prefix, up to
\* the next space.
PresentedToken(auth) ==
  LET n == Len(auth.v)
      stop == IF \E i \in 8..n : auth.v[i] = " "
              THEN CHOOSE i \in 8..n :
                     auth.v[i] = " " /\ \A j \in 8..(i - 1) : auth.v[j] # " "
              ELSE n + 1
  IN Chars([i \in 1..(stop - 8) |-> auth.v[i + 7]])

GatewaySecret(env) ==
  IF "DA_GATEWAY_TOKEN" \in DOMAIN env.v THEN env.v["DA_GATEWAY_TOKEN"] ELSE Undefined

\* C1: a POST /api request whose Authorization header is absent or lacks the
\* prefix "Bearer " is answered nack UNAUTHORIZED (400); one with the prefix
\* whose presented token differs from the gateway secret is answered nack
\* INVALID_TOKEN (400); in both cases the body is not read, no route is looked
\* up and no backend is called; so only a request presenting the secret gets
\* past the gate.
C1_AuthGate ==
  \A r \in ApiRequests :
    LET q == reqs[r]
        auth == q.request.auth
        passes == HasBearerPrefix(auth) /\ PresentedToken(auth) = GatewaySecret(q.env)
    IN /\ ~HasBearerPrefix(auth) =>
            q.pc = "done" /\ IsNack(q.resp, "UNAUTHORIZED") /\ q.did = {} /\ q.out = NoCall
       /\ (HasBearerPrefix(auth) /\ PresentedToken(auth) # GatewaySecret(q.env)) =>
            q.pc = "done" /\ IsNack(q.resp, "INVALID_TOKEN") /\ q.did = {} /\ q.out = NoCall
       /\ (q.pc # "done" \/ q.did # {}) => passes
       /\ passes => ~(IsNack(q.resp, "UNAUTHORIZED") \/ IsNack(q.resp, "INVALID_TOKEN"))

\* C1's case: a header with a trailing segment is refused where no secret is
\* configured, and one with a trailing segment after the secret gets through.
C1_Witness ==
  \E r \in ApiRequests :
    /\ reqs[r].request.auth = Bearer(<<"a", " ", "x">>)
    /\ \/ GatewaySecret(reqs[r].env) = Undefined /\ IsNack(reqs[r].resp, "INVALID_TOKEN")
       \/ GatewaySecret(reqs[r].env) = Chars(<<"a">>) /\ "static" \in reqs[r].did

\* The requests whose body was read.
BodyRead == {r \in ApiRequests : "json" \in reqs[r].did}

ServiceMissing(x) ==
  \/ x.t # "obj"
  \/ "service" \notin DOMAIN x.v
  \/ x.v["service"] \in {Null, Str("")}

PayloadAbsent(x) == x.t # "obj" \/ "payload" \notin DOMAIN x.v

NoLookupNoCall(q) == q.did = {"json"} /\ q.out = NoCall

\* C2: validation is sequential: a body that is not JSON is answered nack
\* INVALID_JSON, else one without a service nack INVALID_FIELD (service), else
\* one without a payload nack INVALID_FIELD (payload); each 400, none raises,
\* none looks a route up or calls a backend; for every JSON value, objects or
\* not; request_id and version never cause a failure.
C2_Validation ==
  \A r \in BodyRead :
    LET q == reqs[r]
        raw == q.request.raw
    IN /\ q.resp.kind # "uncaught"
       /\ ~raw.json => IsNack(q.resp, "INVALID_JSON") /\ NoLookupNoCall(q)
       /\ (raw.json /\ ServiceMissing(raw.value)) =>
            /\ IsNack(q.resp, "INVALID_FIELD")
            /\ q.resp.text = "Missing field: service"
            /\ NoLookupNoCall(q)
       /\ (raw.json /\ ~ServiceMissing(raw.value) /\ PayloadAbsent(raw.value)) =>
            /\ IsNack(q.resp, "INVALID_FIELD")
            /\ q.resp.text = "Missing required field: payload"
            /\ NoLookupNoCall(q)

\* C3: with a non-empty service, a payload of any JSON value ({}, 0, false
\* included) counts as present: the request is not answered INVALID_FIELD and
\* goes on to route resolution; only an absent payload key is refused.
C3_PayloadPresent ==
  \A r \in BodyRead :
    LET q == reqs[r]
        raw == q.request.raw
    IN (raw.json /\ ~ServiceMissing(raw.value) /\ Truthy(raw.value.v["service"])) =>
         IF PayloadAbsent(raw.value)
         THEN IsNack(q.resp, "INVALID_FIELD")
         ELSE ~IsNack(q.resp, "INVALID_FIELD") /\ "static" \in q.did

\* The requests that reached route resolution.
Resolving == {r \in ApiRequests : "static" \in reqs[r].did}

\* The key of an envelope whose service is a string and whose version is a
\* string or absent.
PlainKey(x) ==
  (IF "version" \in DOMAIN x.v /\ x.v["version"] # Str("") THEN x.v["version"].v ELSE "v1")
    \o "/" \o x.v["service"].v

HasPlainKey(x) ==
  /\ x.v["service"].t = "str"
  /\ "version" \in DOMAIN x.v => x.v["version"].t = "str"

\* C4: the lookup key is "{version}/{service}" with version defaulting to
\* "v1"; a key the static table defines resolves to the static entry and the
\* store is never asked, whatever it holds for the key; the store is asked
\* only for keys the static table lacks.
C4_StaticFirst ==
  \A r \in Resolving :
    LET q == reqs[r]
        x == q.request.raw.value
    IN /\ HasPlainKey(x) => q.key = PlainKey(x)
       /\ q.key \in DOMAIN DA_SERVICE_MAP =>
            /\ q.route = DA_SERVICE_MAP[q.key]
            /\ q.did \cap {"findRouteFromDB", "query"} = {}
            /\ q.db = Undefined
       /\ q.key \notin DOMAIN DA_SERVICE_MAP => "findRouteFromDB" \in q.did

\* C4's case: v99/demorest is forwarded to the static REST route, with the
\* store unavailable and with a store that holds another route for the key.
C4_Witness ==
  \E r \in Resolving :
    /\ reqs[r].key = "v99/demorest"
    /\ reqs[r].request.raw.value.v["version"] = Str("v99")
    /\ Prop(reqs[r].env, "DB") \in {Undefined, Db("dbA")}
    /\ reqs[r].out.kind = "REST"
    /\ reqs[r].out.url = "https://v1-users-api.example.com"

\* The requests whose handler made its outbound call.
Forwarded == {r \in ApiRequests : reqs[r].out.kind # "none"}

\* The payload in the body of the outbound call: of the forwarded envelope
\* (REST), of the published event's data (bus).
ForwardedPayload(q) ==
  IF q.out.kind = "REST" THEN Prop(q.out.body, "payload")
  ELSE Prop(Prop(q.out.body.v[1], "data"), "payload")

ClientPayload(q) == q.request.raw.value.v["payload"]

RouteHas(q, field) == q.route.t = "obj" /\ field \in DOMAIN q.route.v

\* C5 as claimed: for every accepted payload, the forwarded payload holds the
\* route's table_name when the route has one and no table_name otherwise.
C5_TableNameAlways ==
  \A r \in Forwarded :
    LET q == reqs[r]
        fp == ForwardedPayload(q)
    IN IF RouteHas(q, "table_name")
       THEN /\ fp.t = "obj"
            /\ "table_name" \in DOMAIN fp.v
            /\ fp.v["table_name"] = q.route.v["table_name"]
       ELSE ~(fp.t = "obj" /\ "table_name" \in DOMAIN fp.v)

\* The requests whose route is of a type with a handler and, for REST, has a
\* target.
Dispatchable ==
  {r \in ApiRequests :
     /\ reqs[r].route # Undefined
     /\ \/ Prop(reqs[r].route, "type") = Str("ABLY")
        \/ Prop(reqs[r].route, "type") = Str("REST") /\ RouteHas(reqs[r], "targetUrl")}

\* C5 amended: for a payload that is a JSON object, the forwarded payload is
\* the client's with table_name set to the route's when the route has one, and
\* with table_name removed otherwise; any other accepted payload (array,
\* string, number, true) is forwarded as the client sent it, without a
\* table_name, whatever the route; and in every case the outbound call is made.
C5_TableNameObjects ==
  /\ \A r \in Forwarded :
       LET q == reqs[r]
           cp == ClientPayload(q)
           fp == ForwardedPayload(q)
       IN IF cp.t = "obj"
          THEN IF RouteHas(q, "table_name")
               THEN fp = Obj(WithKey(cp.v, "table_name", q.route.v["table_name"]))
               ELSE fp = Obj(WithoutKey(cp.v, "table_name"))
          ELSE fp = cp
  /\ \A r \in Dispatchable : "fetch" \in reqs[r].did

\* C5's case: a client's table_name is overwritten by the route's, and an
\* array is forwarded to a route with a table_name.
C5_Witness ==
  \E r \in Forwarded :
    /\ RouteHas(reqs[r], "table_name")
    /\ \/ /\ ClientPayload(reqs[r]) = Payload(Str("spoofed"), Str("created"))
          /\ ForwardedPayload(reqs[r]).v["table_name"] = Str("orders")
       \/ ClientPayload(reqs[r]).t = "arr"

\* C6: the body published to the bus is the one-element array [{name, data}]
\* with data the envelope's payload and name payload.action when present, else
\* "gateway-event".
C6_PublishBody ==
  \A r \in Forwarded :
    LET q == reqs[r]
        payload == Stringify(Prop(q.body, "payload"))
        name == IF payload.t = "obj" /\ "action" \in DOMAIN payload.v
                THEN payload.v["action"] ELSE Str("gateway-event")
    IN q.out.kind = "ABLY" =>
         q.out.body = Arr(<<Obj([k \in {"name", "data"} |->
                                   IF k = "name" THEN name ELSE payload])>>)

\* The credential the claim describes, for a route and the process-wide env.
ClaimedCredential(route, env) ==
  IF "token" \in DOMAIN route.v /\ route.v["token"] # Str("")
  THEN route.v["token"]
  ELSE IF "authKeyEnvName" \in DOMAIN route.v
            /\ route.v["authKeyEnvName"].v \in DOMAIN env.v
  THEN env.v[route.v["authKeyEnvName"].v]
  ELSE Undefined

\* C7: the outbound credential is route.token when non-empty, else the
\* process-wide secret route.authKeyEnvName names, else none, for both
\* handlers; the REST call carries Authorization: Bearer <credential> exactly
\* when there is a credential, and always Content-Type: application/json.
C7_Credential ==
  \A r \in Forwarded :
    LET q == reqs[r]
        cred == ClaimedCredential(q.route, G_ENV)
        none == cred \in {Undefined, Str("")}
    IN /\ q.out.headers["Content-Type"] = "application/json"
       /\ q.out.kind = "REST" =>
            IF none THEN DOMAIN q.out.headers = {"Content-Type"}
            ELSE /\ DOMAIN q.out.headers = {"Content-Type", "Authorization"}
                 /\ q.out.headers["Authorization"] = "Bearer " \o cred.v
       /\ q.out.kind = "ABLY" =>
            q.out.headers["Authorization"] =
              "Basic " \o Btoa(IF cred = Undefined THEN "undefined" ELSE cred.v)

\* C7's case: a route with both token and authKeyEnvName, the named secret
\* being configured, is called with the token.
C7_Witness ==
  \E r \in Forwarded :
    /\ RouteHas(reqs[r], "token") /\ RouteHas(reqs[r], "authKeyEnvName")
    /\ Prop(G_ENV, "REST_API_BEARER_TOKEN") = Str("sA")
    /\ reqs[r].out.headers["Authorization"] = "Bearer T1"

\* The requests whose route was resolved.
Dispatched == {r \in ApiRequests : reqs[r].route # Undefined}

\* C8: a route of a type other than REST and ABLY is answered 501 at once,
\* with no outbound call and a message naming the type field of the request
\* body; a handler that raises is answered 500 "Gateway processing failed";
\* both in the shape {success: false, error}; nothing is raised to the caller.
C8_DispatchErrors ==
  \A r \in Dispatched :
    LET q == reqs[r]
        x == q.request.raw.value
        type == Prop(q.route, "type")
        asked == IF "type" \in DOMAIN x.v THEN x.v["type"].v ELSE "undefined"
    IN /\ q.resp.kind # "uncaught"
       /\ type \notin {Str("REST"), Str("ABLY")} =>
            /\ q.pc = "done"
            /\ q.resp = Response("error", 501, Undefined, "",
                                 "Unsupported service type: " \o asked)
            /\ q.out = NoCall /\ "fetch" \notin q.did
       /\ q.outcome \in {"rejects", "notext"} =>
            /\ q.pc = "done"
            /\ q.resp = Response("error", 500, Undefined, "", "Gateway processing failed")

\* C8's case: a GRPC route asked for with type SOAP in the body is answered
\* 501, and a failed outbound call 500.
C8_Witness ==
  \E r \in Dispatched :
    \/ /\ Prop(reqs[r].route, "type") = Str("GRPC")
       /\ Prop(reqs[r].request.raw.value, "type") = Str("SOAP")
       /\ reqs[r].resp.status = 501
    \/ reqs[r].outcome = "rejects" /\ reqs[r].out.kind # "none" /\ reqs[r].resp.status = 500

\* The requests that asked findRouteFromDB for their route.
AskedStore == {r \in ApiRequests : "findRouteFromDB" \in reqs[r].did}

\* The requests whose resolution has ended.
Resolved == {r \in Resolving : reqs[r].pc \in {"fetch", "done"}}

\* The store raises, has no row for the key, or holds an empty or unparseable
\* value for it.
StoreFails(id, key) ==
  \/ id \in FailingStores
  \/ StoreRows(id, key) = <<>>
  \/ StoreRows(id, key)[1] \in {Null, Str("")}
  \/ StoreRows(id, key)[1].v \in {BrokenText}

NoRoute(q) ==
  /\ q.pc = "done"
  /\ IsNack(q.resp, "NO_ROUTE")
  /\ q.route = Undefined
  /\ q.out = NoCall

C10_Isolation ==
  \A r \in ApiRequests :
    LET q == reqs[r]
    IN /\ (q.pc # "done" \/ q.did # {}) =>
            PresentedToken(q.request.auth) = GatewaySecret(q.env)
       /\ r \in AskedStore => q.db = Prop(q.env, "DB")
       /\ q.out.kind = "REST" =>
            q.out.headers = RestHeaders(ClaimedCredential(q.route, q.env))

====
